---- MODULE Spec2Model ----
(***************************************************************************)
(* Admin API of the Auth^2 IAM service: the role-hierarchy middleware      *)
(* (core/middleware/adminAuth.ts), the admin routes (routes/admin/index.ts)*)
(* and the account mutation controllers (controllers/adminController.ts),  *)
(* run against one PostgreSQL store shared by concurrent requests.         *)
(*                                                                         *)
(* A request is a record that moves through the handler list of its route; *)
(* every await on the store is a separate step, so requests interleave at  *)
(* exactly the points where the Node event loop can switch between them.   *)
(* updated_at / created_at timestamps are not modelled.                    *)
(***************************************************************************)
EXTENDS Integers, Sequences, FiniteSets, TLC

(***************************************************************************)
(* Bounds of the model                                                     *)
(***************************************************************************)
\* concurrent requests in flight
MaxReqs == 2
\* requests accepted over one behaviour
MaxArrivals == 2
\* account rows the sequence account_id may hand out (3 exist initially)
MaxAccounts == 5
\* email verification tokens issued over one behaviour
MaxEmailTokens == 2

(***************************************************************************)
(* Program constants                                                       *)
(***************************************************************************)
\* UserRole enum as documented in the README role hierarchy
ROLE_USER == 1
ROLE_MODERATOR == 2
ROLE_ADMIN == 3
ROLE_OWNER == 5
Roles == ROLE_USER..ROLE_OWNER

(***************************************************************************)
(* JavaScript values that can appear in request.body.role / account_role.  *)
(* A number is kept in halves (h = 2 * value) so that a non-integer such   *)
(* as 2.5 (h = 5) is a value of the model.                                 *)
(***************************************************************************)
JsUndefined == [t |-> "undefined", h |-> 0, s |-> ""]
JsNull == [t |-> "null", h |-> 0, s |-> ""]
JsNum(n) == [t |-> "number", h |-> 2 * n, s |-> ""]
JsHalf(k) == [t |-> "number", h |-> k, s |-> ""]
JsStr(str) == [t |-> "string", h |-> 0, s |-> str]

\* ToBoolean of the ECMAScript specification, as used by the || operator
Truthy(v) ==
    CASE v.t = "undefined" -> FALSE
      [] v.t = "null" -> FALSE
      [] v.t = "number" -> v.h # 0
      [] v.t = "string" -> v.s # ""

\* a || b
JsOr(a, b) == IF Truthy(a) THEN a ELSE b

\* Number.isInteger(v): false for every non-number
NumberIsInteger(v) == v.t = "number" /\ v.h % 2 = 0

\* v < n and v > n for a number v and an integer n
JsLess(v, n) == v.h < 2 * n
JsGreater(v, n) == v.h > 2 * n

(***************************************************************************)
(* Outcome of one middleware: it calls next() or sends a response.         *)
(***************************************************************************)
NoClaims == [id |-> 0, role |-> 0]
CallNext == [next |-> TRUE, status |-> 0]
Respond(code) == [next |-> FALSE, status |-> code]

(***************************************************************************)
(* Role hierarchy middleware                                               *)
(***************************************************************************)
\* requireRole with the comparison off by one: a role equal to minRole is refused
requireRole_Mutant(minRole, request) ==
    IF request.claims = NoClaims THEN Respond(401)
    ELSE IF request.claims.role <= minRole THEN Respond(403)
    ELSE CallNext

\* requireRole(minRole)
requireRole(minRole, request) ==
    IF request.claims = NoClaims THEN Respond(401)
    ELSE IF request.claims.role < minRole THEN Respond(403)
    ELSE CallNext

\* canManageRole refusing a body role equal to the actor's own
canManageRole_Mutant(request) ==
    LET targetRole == JsOr(request.body.role, request.body.account_role) IN
    IF request.claims = NoClaims THEN Respond(401)
    ELSE IF targetRole = JsUndefined THEN CallNext
    ELSE IF ~NumberIsInteger(targetRole) \/ JsLess(targetRole, 1)
                \/ JsGreater(targetRole, 5) THEN Respond(400)
    ELSE IF ~JsLess(targetRole, request.claims.role) THEN Respond(403)
    ELSE CallNext

\* canManageRole: the role carried by the body against the actor's role
canManageRole(request) ==
    LET targetRole == JsOr(request.body.role, request.body.account_role) IN
    IF request.claims = NoClaims THEN Respond(401)
    ELSE IF targetRole = JsUndefined THEN CallNext
    ELSE IF ~NumberIsInteger(targetRole) \/ JsLess(targetRole, 1)
                \/ JsGreater(targetRole, 5) THEN Respond(400)
    ELSE IF JsGreater(targetRole, request.claims.role) THEN Respond(403)
    ELSE CallNext

\* preventSelfModification sending its 403 without return, so that next() follows
preventSelfModification_MutantNoReturn(request) ==
    LET targetUserId == request.id IN
    IF request.claims = NoClaims THEN Respond(401)
    ELSE IF targetUserId = request.claims.id THEN [next |-> TRUE, status |-> 403]
    ELSE CallNext

\* preventSelfModification comparing the target id with the actor's role
preventSelfModification_Mutant(request) ==
    LET targetUserId == request.id IN
    IF request.claims = NoClaims THEN Respond(401)
    ELSE IF targetUserId = request.claims.role THEN Respond(403)
    ELSE CallNext

\* preventSelfModification: params.id was made an integer by validateUserIdParam
preventSelfModification(request) ==
    LET targetUserId == request.id IN
    IF request.claims = NoClaims THEN Respond(401)
    ELSE IF targetUserId = request.claims.id THEN Respond(403)
    ELSE CallNext

\* canModifyTargetUser refusing a target it does not find
canModifyTargetUser_MutantMissing(request, rows) ==
    IF request.claims = NoClaims THEN Respond(401)
    ELSE IF rows = << >> THEN Respond(403)
    ELSE IF rows[1].account_role > request.claims.role THEN Respond(403)
    ELSE CallNext

\* canModifyTargetUser comparing the stored role before it looks at the claims
canModifyTargetUser_Mutant(request, rows) ==
    IF rows # << >> /\ rows[1].account_role > request.claims.role THEN Respond(403)
    ELSE IF request.claims = NoClaims THEN Respond(401)
    ELSE CallNext

\* canModifyTargetUser, given the rows returned by
\* SELECT account_role FROM account WHERE account_id = $1
canModifyTargetUser(request, rows) ==
    IF request.claims = NoClaims THEN Respond(401)
    ELSE IF rows = << >> THEN CallNext
    ELSE IF rows[1].account_role > request.claims.role THEN Respond(403)
    ELSE CallNext

(***************************************************************************)
(* Handler lists.  The repository holds two revisions of adminAuth.ts:     *)
(* "adminAuth" exports requireAdminForUserModification without the target  *)
(* ceiling, "part_001" with it.  authRevision says which one is mounted.   *)
(***************************************************************************)
AuthRevisions == {"adminAuth", "part_001"}

H(name, arg) == [h |-> name, arg |-> arg]

\* requireAdminForUserModification without its requireRole(ROLES.MODERATOR)
requireAdminForUserModification_Mutant(rev) ==
    IF rev = "part_001"
    THEN << H("preventSelfModification", 0), H("canModifyTargetUser", 0),
            H("canManageRole", 0) >>
    ELSE << H("preventSelfModification", 0), H("canManageRole", 0) >>

requireAdminForUserModification(rev) ==
    IF rev = "part_001"
    THEN << H("requireRole", ROLE_MODERATOR), H("preventSelfModification", 0),
            H("canModifyTargetUser", 0), H("canManageRole", 0) >>
    ELSE << H("requireRole", ROLE_MODERATOR), H("preventSelfModification", 0),
            H("canManageRole", 0) >>

Routes == {"create", "update", "delete", "password", "role"}

\* adminRoutes with the password route mounted without requireRole(ROLES.ADMIN)
adminRoutes_Mutant(route, rev) ==
    << H("checkToken", 0) >> \o
    CASE route = "create" ->
            << H("requireRole", ROLE_MODERATOR), H("validateAdminCreateUser", 0),
               H("canManageRole", 0), H("createUser", 0) >>
      [] route = "update" ->
            << H("validateUserIdParam", 0), H("validateUserUpdate", 0) >>
            \o requireAdminForUserModification(rev) \o << H("updateUser", 0) >>
      [] route = "delete" ->
            << H("validateUserIdParam", 0) >>
            \o requireAdminForUserModification(rev) \o << H("deleteUser", 0) >>
      [] route = "password" ->
            << H("validateUserIdParam", 0), H("validateAdminPasswordReset", 0) >>
            \o requireAdminForUserModification(rev) \o << H("resetUserPassword", 0) >>
      [] route = "role" ->
            << H("validateUserIdParam", 0), H("validateRoleChange", 0) >>
            \o requireAdminForUserModification(rev) \o << H("changeUserRole", 0) >>

\* adminRoutes: router.use(checkToken), then the handlers of the route
adminRoutes(route, rev) ==
    << H("checkToken", 0) >> \o
    CASE route = "create" ->
            << H("requireRole", ROLE_MODERATOR), H("validateAdminCreateUser", 0),
               H("canManageRole", 0), H("createUser", 0) >>
      [] route = "update" ->
            << H("validateUserIdParam", 0), H("validateUserUpdate", 0) >>
            \o requireAdminForUserModification(rev) \o << H("updateUser", 0) >>
      [] route = "delete" ->
            << H("validateUserIdParam", 0) >>
            \o requireAdminForUserModification(rev) \o << H("deleteUser", 0) >>
      [] route = "password" ->
            << H("requireRole", ROLE_ADMIN), H("validateUserIdParam", 0),
               H("validateAdminPasswordReset", 0) >>
            \o requireAdminForUserModification(rev) \o << H("resetUserPassword", 0) >>
      [] route = "role" ->
            << H("validateUserIdParam", 0), H("validateRoleChange", 0) >>
            \o requireAdminForUserModification(rev) \o << H("changeUserRole", 0) >>

Controllers == {"createUser", "updateUser", "deleteUser", "resetUserPassword",
                "changeUserRole"}
SyncHandlers == {"requireRole", "preventSelfModification", "canManageRole"}
Validators == {"validateUserIdParam", "validateUserUpdate", "validateAdminCreateUser",
               "validateAdminPasswordReset", "validateRoleChange"}

(***************************************************************************)
(* Request bodies.  UNDEF stands for a field the body does not carry.      *)
(***************************************************************************)
UNDEF == "<undefined>"

Body(role, account_role, username, email, password, account_status, email_verified) ==
    [role |-> role, account_role |-> account_role, username |-> username,
     email |-> email, password |-> password, account_status |-> account_status,
     email_verified |-> email_verified]

EmptyBody == Body(JsUndefined, JsUndefined, UNDEF, UNDEF, UNDEF, UNDEF, UNDEF)

\* express-validator: isInt({min: 1, max: 5}) on the value turned into a string
DigitStrings == << "1", "2", "3", "4", "5" >>
\* isInt() without its min and max options
IsIntInRange_Mutant(v) ==
    \/ v.t = "number" /\ v.h % 2 = 0
    \/ v.t = "string" /\ \E i \in 1..Len(DigitStrings) : DigitStrings[i] = v.s

IsIntInRange(v) ==
    \/ v.t = "number" /\ v.h % 2 = 0 /\ v.h >= 2 * 1 /\ v.h <= 2 * 5
    \/ v.t = "string" /\ \E i \in 1..Len(DigitStrings) : DigitStrings[i] = v.s

\* express-validator: toInt() of a value that passed isInt
ToInt(v) ==
    IF v.t = "string"
    THEN JsNum(CHOOSE i \in 1..Len(DigitStrings) : DigitStrings[i] = v.s)
    ELSE v

\* body('role').notEmpty().isInt({min: 1, max: 5}).toInt(), handleValidationErrors
validateRole(request) ==
    IF IsIntInRange(request.body.role)
    THEN [next |-> TRUE, status |-> 0,
          body |-> [request.body EXCEPT !.role = ToInt(request.body.role)]]
    ELSE [next |-> FALSE, status |-> 400, body |-> request.body]

AccountStatuses == {"pending", "active", "suspended", "locked", "deleted"}

\* validateUserUpdate: every field is optional; account_status must be a known one
validateUserUpdate(request) ==
    IF request.body.account_status = UNDEF \/ request.body.account_status \in AccountStatuses
    THEN [next |-> TRUE, status |-> 0, body |-> request.body]
    ELSE [next |-> FALSE, status |-> 400, body |-> request.body]

\* the validation chain named by a handler of a route
validate(name, request) ==
    CASE name \in {"validateAdminCreateUser", "validateRoleChange"} -> validateRole(request)
      [] name = "validateUserUpdate" -> validateUserUpdate(request)
      [] OTHER -> [next |-> TRUE, status |-> 0, body |-> request.body]

(***************************************************************************)
(* The store and the requests                                              *)
(***************************************************************************)
VARIABLES
    authRevision,    \* the adminAuth.ts revision the routes import
    account,         \* table account: account_id -> row (committed)
    credential,      \* table account_credential: sequence of rows (committed)
    account_id_seq,  \* next value of the SERIAL account_id
    req,             \* slot -> the request served in it
    arrivals         \* requests accepted so far

\* the verification tables; the admin routes never touch them
VARIABLES
    email_verification,  \* table email_verification: sequence of rows
    phone_verification,  \* table phone_verification: account_id -> latest row
    phone_verified,      \* column account.phone_verified: account_id -> flag
    reply                \* the last answer of a verification route

verificationVars == << email_verification, phone_verification, phone_verified, reply >>

vars == << authRevision, account, credential, account_id_seq, req, arrivals,
           verificationVars >>

Slots == 1..MaxReqs

\* generateSaltedHash(password): a fresh random salt and the digest bound to it
Salts == {"s1", "s2"}
SaltedHash(password, salt) == << password, salt >>
generateSaltedHash(password, salt) == [salt |-> salt, hash |-> SaltedHash(password, salt)]

AccountRow(username, email, role, status, email_verified) ==
    [username |-> username, email |-> email, account_role |-> role,
     account_status |-> status, email_verified |-> email_verified]

CredentialRow(id, gen) == [account_id |-> id, salted_hash |-> gen.hash, salt |-> gen.salt]

\* accounts registered before the admin API is used, each with its credential
InitialAccount ==
    (1 :> AccountRow("alice", "alice@uw.edu", ROLE_ADMIN, "active", TRUE))
    @@ (2 :> AccountRow("bob", "bob@uw.edu", ROLE_MODERATOR, "active", TRUE))
    @@ (3 :> AccountRow("carol", "carol@uw.edu", ROLE_USER, "active", FALSE))

InitialCredential ==
    [i \in 1..3 |-> CredentialRow(i, generateSaltedHash("secret", "s0"))]

\* no SMS code was ever sent to the account
NoPhoneCode == [pending |-> FALSE, code |-> "", attempts |-> 0,
                expired |-> FALSE, verified |-> FALSE]

NoReply == [op |-> "", id |-> 0, code |-> "", token |-> 0, result |-> ""]

\* no verification has been asked for yet
InitVerification ==
    /\ email_verification = << >>
    /\ phone_verification = [id \in DOMAIN InitialAccount |-> NoPhoneCode]
    /\ phone_verified = [id \in DOMAIN InitialAccount |-> FALSE]
    /\ reply = NoReply

NoTx == [open |-> FALSE, account |-> << >>, cred |-> << >>, credUpd |-> << >>]

NoReq ==
    [route |-> "none", claims |-> NoClaims, id |-> 0, body |-> EmptyBody,
     pos |-> 0, status |-> 0, step |-> "", tx |-> NoTx, sql |-> << >>,
     released |-> 0, targetUserRole |-> 0, error |-> "",
     pre |-> [account |-> << >>, credential |-> << >>]]

Chain(r) == adminRoutes(r.route, authRevision)
Handler(r) == Chain(r)[r.pos]
Active(r) == r.route # "none" /\ r.status = 0
Done(r) == r.route # "none" /\ r.status # 0

\* Node runs synchronous code to completion: while a request is between two
\* synchronous middlewares (next() was called and the next handler has not
\* reached an await), no other request is served.
InSyncRun(r) ==
    /\ Active(r) /\ r.pos > 1
    /\ Chain(r)[r.pos - 1].h \in SyncHandlers
    /\ Handler(r).h \in SyncHandlers

Quiet(s) == \A t \in Slots \ {s} : ~InSyncRun(req[t])

Init ==
    /\ authRevision \in AuthRevisions
    /\ account = InitialAccount
    /\ credential = InitialCredential
    /\ account_id_seq = 4
    /\ req = [s \in Slots |-> NoReq]
    /\ arrivals = 0
    /\ InitVerification

(***************************************************************************)
(* Requests the clients send                                               *)
(***************************************************************************)
\* bearer tokens issued at login from the initial account rows
Claims == {[id |-> i, role |-> InitialAccount[i].account_role] : i \in 1..3}

TargetIds == 1..MaxAccounts

\* values of body.role as sent: the five roles, and 0 and 6 outside the range
RoleInputs == {JsNum(r) : r \in Roles} \cup {JsNum(0), JsNum(6)}

CreateBodies ==
    {Body(role, JsUndefined, u, e, "newpw", UNDEF, UNDEF) :
        role \in RoleInputs, u \in {"alice", "carol", "dave"},
        e \in {"alice@uw.edu", "dave@uw.edu"}}

UpdateBodies ==
    {EmptyBody,
     [EmptyBody EXCEPT !.account_status = "suspended"],
     [EmptyBody EXCEPT !.username = "alice"],
     [EmptyBody EXCEPT !.account_status = "suspended", !.role = JsNum(ROLE_OWNER)]}

DeleteBodies == {EmptyBody, [EmptyBody EXCEPT !.role = JsNum(ROLE_OWNER)]}

PasswordBodies ==
    {[EmptyBody EXCEPT !.password = "newpw"],
     [EmptyBody EXCEPT !.password = "newpw", !.role = JsNum(ROLE_OWNER)]}

RoleBodies == {[EmptyBody EXCEPT !.role = role] : role \in RoleInputs}

BodiesOf(route) ==
    CASE route = "create" -> CreateBodies
      [] route = "update" -> UpdateBodies
      [] route = "delete" -> DeleteBodies
      [] route = "password" -> PasswordBodies
      [] route = "role" -> RoleBodies

\* createUser calls that have not drawn their account_id yet
PendingCreates ==
    Cardinality({t \in Slots : Active(req[t]) /\ req[t].route = "create"
                                 /\ req[t].tx.account = << >>})

\* Requests that overlap in time are drawn from a smaller menu: moderator and
\* admin tokens, all aimed at account 3 (or creating "dave").
ConcurrentBodies(route) ==
    CASE route = "create" ->
            {Body(JsNum(ROLE_USER), JsUndefined, "dave", "dave@uw.edu", "newpw", UNDEF, UNDEF)}
      [] route = "update" ->
            {[EmptyBody EXCEPT !.account_status = "suspended"],
             [EmptyBody EXCEPT !.username = "dave"]}
      [] route = "delete" -> {EmptyBody}
      [] route = "password" -> {[EmptyBody EXCEPT !.password = "newpw"]}
      [] route = "role" -> {[EmptyBody EXCEPT !.role = JsNum(ROLE_MODERATOR)],
                            [EmptyBody EXCEPT !.role = JsNum(ROLE_ADMIN)]}

InConcurrentMenu(route, claims, id, body) ==
    /\ claims.role >= ROLE_MODERATOR
    /\ id \in {0, 3}
    /\ body \in ConcurrentBodies(route)

NewRequest(route, claims, id, body) ==
    [NoReq EXCEPT !.route = route, !.claims = claims, !.id = id, !.body = body,
                  !.pos = 2,
                  !.pre = [account |-> account, credential |-> credential]]

\* A request arrives with a valid bearer token: router.use(checkToken) has set
\* request.claims and called next(); the request stands before the second handler.
Arrive(s) ==
    /\ arrivals < MaxArrivals
    /\ ~Active(req[s])
    /\ \A t \in Slots : t < s => Active(req[t])
    /\ Quiet(s)
    /\ \E route \in Routes, claims \in Claims :
        /\ route = "create" => account_id_seq + PendingCreates <= MaxAccounts
        /\ \E id \in (IF route = "create" THEN {0} ELSE TargetIds),
                 body \in BodiesOf(route) \cup ConcurrentBodies(route) :
            /\ \A t \in Slots \ {s} : Active(req[t]) =>
                    /\ InConcurrentMenu(route, claims, id, body)
                    /\ InConcurrentMenu(req[t].route, req[t].claims, req[t].id, req[t].body)
            /\ req' = [req EXCEPT ![s] = NewRequest(route, claims, id, body)]
    /\ arrivals' = arrivals + 1
    /\ UNCHANGED << verificationVars, authRevision, account, credential, account_id_seq >>

\* the request after a middleware's outcome: the next handler, or the response
Advance(r, out) ==
    [r EXCEPT !.pos = IF out.next THEN r.pos + 1 ELSE r.pos,
              !.status = IF out.status # 0 THEN out.status ELSE r.status]

AtHandler(s, names) == Active(req[s]) /\ Quiet(s) /\ Handler(req[s]).h \in names

Validate(s) ==
    /\ AtHandler(s, Validators)
    /\ LET out == validate(Handler(req[s]).h, req[s]) IN
        req' = [req EXCEPT ![s] = Advance([req[s] EXCEPT !.body = out.body], out)]
    /\ UNCHANGED << verificationVars, authRevision, account, credential, account_id_seq, arrivals >>

\* requireRole looking up the actor's stored role in place of claims.role
RequireRole_MutantStored(s) ==
    /\ AtHandler(s, {"requireRole"})
    /\ LET stored == account[req[s].claims.id].account_role
           request == [req[s] EXCEPT !.claims.role = stored]
       IN req' = [req EXCEPT ![s] =
                    Advance(req[s], requireRole(Handler(req[s]).arg, request))]
    /\ UNCHANGED << verificationVars, authRevision, account, credential, account_id_seq, arrivals >>

RequireRole(s) ==
    /\ AtHandler(s, {"requireRole"})
    /\ req' = [req EXCEPT ![s] = Advance(req[s], requireRole(Handler(req[s]).arg, req[s]))]
    /\ UNCHANGED << verificationVars, authRevision, account, credential, account_id_seq, arrivals >>

PreventSelfModification(s) ==
    /\ AtHandler(s, {"preventSelfModification"})
    /\ req' = [req EXCEPT ![s] = Advance(req[s], preventSelfModification(req[s]))]
    /\ UNCHANGED << verificationVars, authRevision, account, credential, account_id_seq, arrivals >>

\* SELECT account_role FROM account WHERE account_id = $1, on the committed table
SelectAccountRole(id) ==
    IF id \in DOMAIN account THEN << [account_role |-> account[id].account_role] >> ELSE << >>

CanModifyTargetUser(s) ==
    /\ AtHandler(s, {"canModifyTargetUser"})
    /\ LET rows == SelectAccountRole(req[s].id)
           out == canModifyTargetUser(req[s], rows)
           seen == IF out.next /\ rows # << >> THEN rows[1].account_role ELSE 0
       IN req' = [req EXCEPT ![s] = Advance([req[s] EXCEPT !.targetUserRole = seen], out)]
    /\ UNCHANGED << verificationVars, authRevision, account, credential, account_id_seq, arrivals >>

\* canManageRole mounted as a handler that always calls next()
CanManageRole_Mutant(s) ==
    /\ AtHandler(s, {"canManageRole"})
    /\ req' = [req EXCEPT ![s] = Advance(req[s], CallNext)]
    /\ UNCHANGED << verificationVars, authRevision, account, credential, account_id_seq, arrivals >>

CanManageRole(s) ==
    /\ AtHandler(s, {"canManageRole"})
    /\ req' = [req EXCEPT ![s] = Advance(req[s], canManageRole(req[s]))]
    /\ UNCHANGED << verificationVars, authRevision, account, credential, account_id_seq, arrivals >>

(***************************************************************************)
(* Store helpers                                                           *)
(***************************************************************************)
\* the integer a validated body.role stands for
NumVal(v) == v.h \div 2

\* UNIQUE (username), UNIQUE (email): would row, stored under id, collide with
\* a committed row?
UniqueViolation(id, row) ==
    \E j \in DOMAIN account \ {id} :
        account[j].username = row.username \/ account[j].email = row.email

\* an uncommitted INSERT of another transaction holds the same key: the
\* statement waits for that transaction to end
WaitsForInsert(s, row) ==
    \E t \in Slots \ {s} :
        /\ req[t].tx.open
        /\ \E i \in 1..Len(req[t].tx.account) :
            \/ req[t].tx.account[i].row.username = row.username
            \/ req[t].tx.account[i].row.email = row.email

\* another open transaction has updated the credential row of this account
\* and holds its row lock
WaitsForRowLock(s, id) ==
    \E t \in Slots \ {s} :
        /\ req[t].tx.open
        /\ \E i \in 1..Len(req[t].tx.credUpd) : req[t].tx.credUpd[i].account_id = id

Reply(r, code) == [r EXCEPT !.status = code]

\* the error a rejected statement throws into the controller's catch block:
\* the store's unique_violation, or any other failure
Thrown(r, error) == [r EXCEPT !.error = error]

(***************************************************************************)
(* Controllers made of one statement                                       *)
(***************************************************************************)
\* updateUser with role among the columns it copies from the body
UpdatedRow_Mutant(row, body) ==
    [row EXCEPT
        !.username = IF body.username # UNDEF THEN body.username ELSE @,
        !.email = IF body.email # UNDEF THEN body.email ELSE @,
        !.account_status = IF body.account_status # UNDEF THEN body.account_status ELSE @,
        !.email_verified = IF body.email_verified # UNDEF THEN body.email_verified = "true" ELSE @,
        !.account_role = IF body.role.t = "number" /\ body.role.h % 2 = 0
                            /\ body.role.h >= 2 /\ body.role.h <= 10
                         THEN body.role.h \div 2 ELSE @]

\* the row updateUser asks the store to write
UpdatedRow(row, body) ==
    [row EXCEPT
        !.username = IF body.username # UNDEF THEN body.username ELSE @,
        !.email = IF body.email # UNDEF THEN body.email ELSE @,
        !.account_status = IF body.account_status # UNDEF THEN body.account_status ELSE @,
        !.email_verified = IF body.email_verified # UNDEF THEN body.email_verified = "true" ELSE @]

NoFieldsToUpdate(body) ==
    /\ body.username = UNDEF /\ body.email = UNDEF
    /\ body.account_status = UNDEF /\ body.email_verified = UNDEF

UpdateUser(s) ==
    /\ AtHandler(s, {"updateUser"})
    /\ LET r == req[s]
           userId == r.id
       IN IF NoFieldsToUpdate(r.body)
          THEN /\ req' = [req EXCEPT ![s] = Reply(r, 400)]
               /\ UNCHANGED account
          ELSE IF userId \notin DOMAIN account
          THEN /\ req' = [req EXCEPT ![s] = Reply(r, 404)]
               /\ UNCHANGED account
          ELSE LET row == UpdatedRow(account[userId], r.body) IN
               /\ ~WaitsForInsert(s, row)
               /\ IF UniqueViolation(userId, row)
                  THEN /\ req' = [req EXCEPT ![s] =
                                Reply(Thrown(r, "unique_violation"), 500)]
                       /\ UNCHANGED account
                  ELSE /\ account' = [account EXCEPT ![userId] = row]
                       /\ req' = [req EXCEPT ![s] = Reply(r, 200)]
    /\ UNCHANGED << verificationVars, authRevision, credential, account_id_seq, arrivals >>

\* deleteUser issuing DELETE FROM account in place of the status update
DeleteUser_Mutant(s) ==
    /\ AtHandler(s, {"deleteUser"})
    /\ LET r == req[s]
           userId == r.id
       IN IF userId \notin DOMAIN account
          THEN /\ req' = [req EXCEPT ![s] = Reply(r, 404)]
               /\ UNCHANGED account
          ELSE /\ account' = [j \in DOMAIN account \ {userId} |-> account[j]]
               /\ req' = [req EXCEPT ![s] = Reply(r, 200)]
    /\ UNCHANGED << verificationVars, authRevision, credential, account_id_seq, arrivals >>

DeleteUser(s) ==
    /\ AtHandler(s, {"deleteUser"})
    /\ LET r == req[s]
           userId == r.id
       IN IF userId \notin DOMAIN account
          THEN /\ req' = [req EXCEPT ![s] = Reply(r, 404)]
               /\ UNCHANGED account
          ELSE /\ account' = [account EXCEPT ![userId].account_status = "deleted"]
               /\ req' = [req EXCEPT ![s] = Reply(r, 200)]
    /\ UNCHANGED << verificationVars, authRevision, credential, account_id_seq, arrivals >>

\* changeUserRole storing the actor's own role in place of the requested one
ChangeUserRole_Mutant(s) ==
    /\ AtHandler(s, {"changeUserRole"})
    /\ LET r == req[s]
           userId == r.id
           role == r.claims.role
       IN IF userId \notin DOMAIN account
          THEN /\ req' = [req EXCEPT ![s] = Reply(r, 404)]
               /\ UNCHANGED account
          ELSE /\ account' = [account EXCEPT ![userId].account_role = role]
               /\ req' = [req EXCEPT ![s] = Reply(r, 200)]
    /\ UNCHANGED << verificationVars, authRevision, credential, account_id_seq, arrivals >>

ChangeUserRole(s) ==
    /\ AtHandler(s, {"changeUserRole"})
    /\ LET r == req[s]
           userId == r.id
           role == NumVal(r.body.role)
       IN IF userId \notin DOMAIN account
          THEN /\ req' = [req EXCEPT ![s] = Reply(r, 404)]
               /\ UNCHANGED account
          ELSE /\ account' = [account EXCEPT ![userId].account_role = role]
               /\ req' = [req EXCEPT ![s] = Reply(r, 200)]
    /\ UNCHANGED << verificationVars, authRevision, credential, account_id_seq, arrivals >>

(***************************************************************************)
(* Transactions on a pooled client (READ COMMITTED): the writes of an open *)
(* transaction are pending in tx and reach the tables at COMMIT.           *)
(***************************************************************************)
RECURSIVE InsertAccounts(_, _)
InsertAccounts(table, pending) ==
    IF pending = << >> THEN table
    ELSE InsertAccounts(table @@ (pending[1].id :> pending[1].row), Tail(pending))

RECURSIVE UpdateCredentials(_, _)
UpdateCredentials(table, pending) ==
    IF pending = << >> THEN table
    ELSE UpdateCredentials(
            [i \in DOMAIN table |->
                IF table[i].account_id = pending[1].account_id
                THEN [table[i] EXCEPT !.salted_hash = pending[1].salted_hash,
                                      !.salt = pending[1].salt]
                ELSE table[i]],
            Tail(pending))

\* COMMIT of an UPDATE that sets salted_hash and leaves salt as it was
Commit_Mutant(tx) ==
    [account |-> InsertAccounts(account, tx.account),
     credential |->
        [i \in DOMAIN credential |->
            IF \E k \in 1..Len(tx.credUpd) :
                    tx.credUpd[k].account_id = credential[i].account_id
            THEN [credential[i] EXCEPT !.salted_hash = tx.credUpd[1].salted_hash]
            ELSE credential[i]] \o tx.cred]

\* client.query('COMMIT'): the tables after the pending writes are applied
Commit(tx) ==
    [account |-> InsertAccounts(account, tx.account),
     credential |-> UpdateCredentials(credential, tx.credUpd) \o tx.cred]

\* a ROLLBACK that undoes the credential writes and keeps the inserted accounts
Rollback_MutantPartial(tx) ==
    [account |-> InsertAccounts(account, tx.account), credential |-> credential]

\* a catch block that issues COMMIT where ROLLBACK was meant
Rollback_Mutant(tx) == Commit(tx)

\* client.query('ROLLBACK'): the tables without the pending writes
Rollback(tx) == [account |-> account, credential |-> credential]

\* BEGIN on the client obtained from pool.connect()
Begin(r) == [r EXCEPT !.tx = [NoTx EXCEPT !.open = TRUE], !.sql = << "BEGIN" >>]

\* an early return that answers without issuing ROLLBACK
EarlyReturn_Mutant(r, code) ==
    [r EXCEPT !.status = code, !.released = r.released + 1, !.step = "returned"]

\* the early return of a controller: ROLLBACK, the response, release in finally
EarlyReturn(r, code) ==
    [r EXCEPT !.tx = NoTx, !.sql = Append(r.sql, "ROLLBACK"), !.status = code,
              !.released = r.released + 1, !.step = "returned"]

\* catch (error): ROLLBACK, 500, release in finally
Catch(r) ==
    [r EXCEPT !.tx = NoTx, !.sql = Append(r.sql, "ROLLBACK"), !.status = 500,
              !.released = r.released + 1, !.step = "caught"]

\* COMMIT, the success response, release in finally
Succeed(r, code) ==
    [r EXCEPT !.tx = NoTx, !.sql = Append(r.sql, "COMMIT"), !.status = code,
              !.released = r.released + 1, !.step = "committed"]

AtStep(s, name, step) == AtHandler(s, {name}) /\ req[s].step = step

(***************************************************************************)
(* createUser                                                              *)
(***************************************************************************)
\* the duplicate check with AND in place of OR
SelectExisting_Mutant(username, email) ==
    {j \in DOMAIN account : account[j].username = username /\ account[j].email = email}

\* the duplicate check skipping the rows marked 'deleted'
SelectExisting_MutantActiveOnly(username, email) ==
    {j \in DOMAIN account :
        /\ account[j].account_status # "deleted"
        /\ account[j].username = username \/ account[j].email = email}

\* SELECT account_id FROM account WHERE username = $1 OR email = $2
SelectExisting(username, email) ==
    {j \in DOMAIN account : account[j].username = username \/ account[j].email = email}

\* pool.connect, BEGIN and the duplicate check
CreateUserCheck(s) ==
    /\ AtStep(s, "createUser", "")
    /\ LET r == Begin(req[s])
           existingUser == SelectExisting(r.body.username, r.body.email)
       IN IF existingUser # {}
          THEN /\ req' = [req EXCEPT ![s] = EarlyReturn(r, 409)]
               /\ account' = Rollback(r.tx).account
               /\ credential' = Rollback(r.tx).credential
          ELSE /\ req' = [req EXCEPT ![s] = [r EXCEPT !.step = "insert"]]
               /\ UNCHANGED << account, credential >>
    /\ UNCHANGED << verificationVars, authRevision, account_id_seq, arrivals >>

\* INSERT INTO account ... RETURNING account_id
CreateUserInsert(s) ==
    /\ AtStep(s, "createUser", "insert")
    /\ LET r == req[s]
           row == AccountRow(r.body.username, r.body.email, NumVal(r.body.role),
                             "active", FALSE)
           newAccount == [id |-> account_id_seq, row |-> row]
       IN /\ ~WaitsForInsert(s, row)
          /\ account_id_seq' = account_id_seq + 1
          /\ IF UniqueViolation(0, row)
             THEN /\ req' = [req EXCEPT ![s] = Catch(Thrown(r, "unique_violation"))]
                  /\ account' = Rollback(r.tx).account
                  /\ credential' = Rollback(r.tx).credential
             ELSE /\ req' = [req EXCEPT ![s] =
                        [r EXCEPT !.tx.account = << newAccount >>, !.step = "credential"]]
                  /\ UNCHANGED << account, credential >>
    /\ UNCHANGED << verificationVars, authRevision, arrivals >>

\* generateSaltedHash and INSERT INTO account_credential; either may throw
CreateUserCredential(s) ==
    /\ AtStep(s, "createUser", "credential")
    /\ LET r == req[s] IN
        \/ \E salt \in Salts :
            /\ req' = [req EXCEPT ![s] =
                  [r EXCEPT !.tx.cred = << CredentialRow(r.tx.account[1].id,
                                             generateSaltedHash(r.body.password, salt)) >>,
                            !.step = "commit"]]
            /\ UNCHANGED << account, credential >>
        \/ /\ req' = [req EXCEPT ![s] = Catch(Thrown(r, "failure"))]
           /\ account' = Rollback(r.tx).account
           /\ credential' = Rollback(r.tx).credential
    /\ UNCHANGED << verificationVars, authRevision, account_id_seq, arrivals >>

CreateUserCommit(s) ==
    /\ AtStep(s, "createUser", "commit")
    /\ LET r == req[s] IN
        /\ account' = Commit(r.tx).account
        /\ credential' = Commit(r.tx).credential
        /\ req' = [req EXCEPT ![s] = Succeed(r, 201)]
    /\ UNCHANGED << verificationVars, authRevision, account_id_seq, arrivals >>

(***************************************************************************)
(* resetUserPassword                                                       *)
(***************************************************************************)
\* resetUserPassword without the test of userCheck.rows.length
ResetUserPasswordCheck_Mutant(s) ==
    /\ AtStep(s, "resetUserPassword", "")
    /\ req' = [req EXCEPT ![s] = [Begin(req[s]) EXCEPT !.step = "update"]]
    /\ UNCHANGED << verificationVars, authRevision, account, credential, account_id_seq, arrivals >>

\* pool.connect, BEGIN and SELECT account_id FROM account WHERE account_id = $1
ResetUserPasswordCheck(s) ==
    /\ AtStep(s, "resetUserPassword", "")
    /\ LET r == Begin(req[s])
           userId == r.id
       IN IF userId \notin DOMAIN account
          THEN /\ req' = [req EXCEPT ![s] = EarlyReturn(r, 404)]
               /\ account' = Rollback(r.tx).account
               /\ credential' = Rollback(r.tx).credential
          ELSE /\ req' = [req EXCEPT ![s] = [r EXCEPT !.step = "update"]]
               /\ UNCHANGED << account, credential >>
    /\ UNCHANGED << verificationVars, authRevision, account_id_seq, arrivals >>

\* generateSaltedHash and UPDATE account_credential SET salted_hash, salt
ResetUserPasswordUpdate(s) ==
    /\ AtStep(s, "resetUserPassword", "update")
    /\ LET r == req[s] IN
        \/ \E salt \in Salts :
            /\ ~WaitsForRowLock(s, r.id)
            /\ req' = [req EXCEPT ![s] =
                  [r EXCEPT !.tx.credUpd = << CredentialRow(r.id,
                                                generateSaltedHash(r.body.password, salt)) >>,
                            !.step = "commit"]]
            /\ UNCHANGED << account, credential >>
        \/ /\ req' = [req EXCEPT ![s] = Catch(Thrown(r, "failure"))]
           /\ account' = Rollback(r.tx).account
           /\ credential' = Rollback(r.tx).credential
    /\ UNCHANGED << verificationVars, authRevision, account_id_seq, arrivals >>

ResetUserPasswordCommit(s) ==
    /\ AtStep(s, "resetUserPassword", "commit")
    /\ LET r == req[s] IN
        /\ account' = Commit(r.tx).account
        /\ credential' = Commit(r.tx).credential
        /\ req' = [req EXCEPT ![s] = Succeed(r, 200)]
    /\ UNCHANGED << verificationVars, authRevision, account_id_seq, arrivals >>

(***************************************************************************)
(* Specification                                                           *)
(***************************************************************************)
\* one step of the request in slot s
Serve(s) ==
    \/ Validate(s)
    \/ RequireRole(s)
    \/ PreventSelfModification(s)
    \/ CanModifyTargetUser(s)
    \/ CanManageRole(s)
    \/ UpdateUser(s)
    \/ DeleteUser(s)
    \/ ChangeUserRole(s)
    \/ CreateUserCheck(s)
    \/ CreateUserInsert(s)
    \/ CreateUserCredential(s)
    \/ CreateUserCommit(s)
    \/ ResetUserPasswordCheck(s)
    \/ ResetUserPasswordUpdate(s)
    \/ ResetUserPasswordCommit(s)

Next == \E s \in Slots : Arrive(s) \/ Serve(s)

Spec == Init /\ [][Next]_vars

\* Node's event loop runs every callback that is ready and every statement
\* sent to the store returns: a request that can take a step eventually does
SpecFair == Spec /\ \A s \in Slots : WF_vars(Serve(s))

(***************************************************************************)
(* One request with arbitrary content.  A token may be older than the last *)
(* role change of its account, so claims.role is any role; body.role and   *)
(* body.account_role are any JSON value.                                   *)
(***************************************************************************)
AnyClaims == [id : 1..3, role : Roles]

JsRoleValues ==
    {JsUndefined, JsNull, JsStr(""), JsStr("3"), JsHalf(5)} \cup {JsNum(n) : n \in -1..6}

JsAccountRoleValues == {JsUndefined, JsNum(0), JsNum(4)}

AnyBodies(route) ==
    LET bases == CASE route = "create" ->
                        {Body(JsUndefined, JsUndefined, "dave", "dave@uw.edu", "newpw",
                              UNDEF, UNDEF)}
                   [] route = "update" ->
                        {EmptyBody,
                         [EmptyBody EXCEPT !.account_status = "suspended"],
                         [EmptyBody EXCEPT !.username = "dave", !.email_verified = "true"]}
                   [] route = "password" -> {[EmptyBody EXCEPT !.password = "newpw"]}
                   [] OTHER -> {EmptyBody}
    IN {[base EXCEPT !.role = role, !.account_role = ar] :
            base \in bases, role \in JsRoleValues, ar \in JsAccountRoleValues}

InitAuthorizer ==
    /\ authRevision \in AuthRevisions
    /\ account = InitialAccount
    /\ credential = InitialCredential
    /\ account_id_seq = 4
    /\ arrivals = MaxArrivals
    /\ InitVerification
    /\ \E route \in Routes, claims \in AnyClaims :
        \E id \in (IF route = "create" THEN {0} ELSE TargetIds), body \in AnyBodies(route) :
            req = [s \in Slots |-> IF s = 1 THEN NewRequest(route, claims, id, body)
                                   ELSE NoReq]

NextAuthorizer == \E s \in Slots : Serve(s)

SpecAuthorizer == InitAuthorizer /\ [][NextAuthorizer]_vars

(***************************************************************************)
(* The authorizer middlewares on a request that carries no claims: each of *)
(* them is an exported handler and tests !request.claims itself, so the    *)
(* request stands before any one of them in its route's handler list.      *)
(***************************************************************************)
Authorizers ==
    {"requireRole", "preventSelfModification", "canModifyTargetUser", "canManageRole"}

InitUnauthenticated ==
    /\ authRevision \in AuthRevisions
    /\ account = InitialAccount
    /\ credential = InitialCredential
    /\ account_id_seq = 4
    /\ arrivals = MaxArrivals
    /\ InitVerification
    /\ \E route \in Routes :
        \E id \in (IF route = "create" THEN {0} ELSE TargetIds), body \in AnyBodies(route),
           pos \in {i \in 1..Len(adminRoutes(route, authRevision)) :
                        adminRoutes(route, authRevision)[i].h \in Authorizers} :
            req = [s \in Slots |->
                      IF s = 1
                      THEN [NewRequest(route, NoClaims, id, body) EXCEPT !.pos = pos]
                      ELSE NoReq]

NextUnauthenticated ==
    \E s \in Slots :
        \/ RequireRole(s)
        \/ PreventSelfModification(s)
        \/ CanModifyTargetUser(s)
        \/ CanManageRole(s)

SpecUnauthenticated == InitUnauthenticated /\ [][NextUnauthenticated]_vars

(***************************************************************************)
(* Verification routes.  closedRoutes mounts sendSMSVerification,          *)
(* verifySMSCode and sendEmailVerification behind checkToken, openRoutes   *)
(* mounts confirmEmailVerification; the controllers follow the transitions *)
(* of the verification lifecycle (sendPhoneCode, verifyPhoneCode,          *)
(* sendEmailVerification, confirmEmail).  Each request is one step.        *)
(***************************************************************************)
\* attempts after which a phone code is refused whatever code is presented
PhoneAttemptCeiling == 5

\* the account whose owner uses the verification routes
Verifiers == {3}

\* codes the SMS generator draws, and what clients type: the same codes and
\* a string that is not six digits
PhoneCodes == {"123456", "654321"}
CodeInputs == PhoneCodes \cup {"12345"}

\* validatePhoneVerify: body('code').notEmpty().trim().matches(/^\d{6}$/)
validatePhoneVerify(code) == code \in PhoneCodes

\* validateEmailToken: query('token').notEmpty(); 0 stands for a missing token
validateEmailToken(token) == token # 0

Answer(op, id, code, token, result) ==
    [op |-> op, id |-> id, code |-> code, token |-> token, result |-> result]

adminVars == << authRevision, credential, account_id_seq, req, arrivals >>

\* POST /auth/verify/phone/send: a new code, attempts 0, a new expiry; the
\* row replaces the pending one of the account
sendSMSVerification(id, code) ==
    /\ phone_verification' =
            [phone_verification EXCEPT ![id] =
                [pending |-> TRUE, code |-> code, attempts |-> 0,
                 expired |-> FALSE, verified |-> FALSE]]
    /\ reply' = Answer("sendSMSVerification", id, "", 0, "Sent")
    /\ UNCHANGED << adminVars, account, email_verification, phone_verified >>

\* verifySMSCode comparing the code before it looks at attempts
verifySMSCode_Mutant(id, code) ==
    LET rec == phone_verification[id]
        answer(result) == Answer("verifySMSCode", id, code, 0, result)
    IN
    /\ UNCHANGED << adminVars, account, email_verification >>
    /\ IF ~validatePhoneVerify(code)
       THEN /\ reply' = answer("InvalidInput")
            /\ UNCHANGED << phone_verification, phone_verified >>
       ELSE IF ~rec.pending
       THEN /\ reply' = answer("NotFound")
            /\ UNCHANGED << phone_verification, phone_verified >>
       ELSE IF rec.expired
       THEN /\ reply' = answer("Expired")
            /\ UNCHANGED << phone_verification, phone_verified >>
       ELSE IF code = rec.code
       THEN /\ reply' = answer("Verified")
            /\ phone_verification' =
                    [phone_verification EXCEPT ![id].verified = TRUE,
                                               ![id].pending = FALSE]
            /\ phone_verified' = [phone_verified EXCEPT ![id] = TRUE]
       ELSE IF rec.attempts >= PhoneAttemptCeiling
       THEN /\ reply' = answer("AttemptsExhausted")
            /\ UNCHANGED << phone_verification, phone_verified >>
       ELSE /\ reply' = answer("Incorrect")
            /\ phone_verification' =
                    [phone_verification EXCEPT ![id].attempts = rec.attempts + 1]
            /\ UNCHANGED phone_verified

\* POST /auth/verify/phone/verify: validatePhoneVerify, then NotFound,
\* Expired, AttemptsExhausted, Incorrect (attempts + 1) or the verification
verifySMSCode(id, code) ==
    LET rec == phone_verification[id]
        answer(result) == Answer("verifySMSCode", id, code, 0, result)
    IN
    /\ UNCHANGED << adminVars, account, email_verification >>
    /\ IF ~validatePhoneVerify(code)
       THEN /\ reply' = answer("InvalidInput")
            /\ UNCHANGED << phone_verification, phone_verified >>
       ELSE IF ~rec.pending
       THEN /\ reply' = answer("NotFound")
            /\ UNCHANGED << phone_verification, phone_verified >>
       ELSE IF rec.expired
       THEN /\ reply' = answer("Expired")
            /\ UNCHANGED << phone_verification, phone_verified >>
       ELSE IF rec.attempts >= PhoneAttemptCeiling
       THEN /\ reply' = answer("AttemptsExhausted")
            /\ UNCHANGED << phone_verification, phone_verified >>
       ELSE IF code # rec.code
       THEN /\ reply' = answer("Incorrect")
            /\ phone_verification' =
                    [phone_verification EXCEPT ![id].attempts = rec.attempts + 1]
            /\ UNCHANGED phone_verified
       ELSE /\ reply' = answer("Verified")
            /\ phone_verification' =
                    [phone_verification EXCEPT ![id].verified = TRUE,
                                               ![id].pending = FALSE]
            /\ phone_verified' = [phone_verified EXCEPT ![id] = TRUE]

\* fifteen minutes pass after a code was sent
PhoneCodeExpires(id) ==
    /\ phone_verification[id].pending /\ ~phone_verification[id].expired
    /\ phone_verification' = [phone_verification EXCEPT ![id].expired = TRUE]
    /\ UNCHANGED << adminVars, account, email_verification, phone_verified, reply >>

\* POST /auth/verify/email/send: the unconsumed tokens of the account are
\* invalidated and a new unique token is stored
sendEmailVerification(id) ==
    /\ Len(email_verification) < MaxEmailTokens
    /\ LET token == Len(email_verification) + 1
           invalidated ==
                [i \in DOMAIN email_verification |->
                    IF email_verification[i].account_id = id
                            /\ ~email_verification[i].verified
                    THEN [email_verification[i] EXCEPT !.expired = TRUE]
                    ELSE email_verification[i]]
       IN /\ email_verification' =
                Append(invalidated, [account_id |-> id, token |-> token,
                                     expired |-> FALSE, verified |-> FALSE])
          /\ reply' = Answer("sendEmailVerification", id, "", token, "Sent")
    /\ UNCHANGED << adminVars, account, phone_verification, phone_verified >>

\* confirmEmailVerification without the test of the verified flag
confirmEmailVerification_Mutant(token) ==
    LET answer(result) == Answer("confirmEmailVerification", 0, "", token, result) IN
    /\ UNCHANGED << adminVars, phone_verification, phone_verified >>
    /\ IF ~validateEmailToken(token)
       THEN /\ reply' = answer("InvalidInput")
            /\ UNCHANGED << account, email_verification >>
       ELSE IF token \notin DOMAIN email_verification
       THEN /\ reply' = answer("NotFound")
            /\ UNCHANGED << account, email_verification >>
       ELSE IF email_verification[token].expired
       THEN /\ reply' = answer("Expired")
            /\ UNCHANGED << account, email_verification >>
       ELSE /\ reply' = answer("Verified")
            /\ email_verification' = [email_verification EXCEPT ![token].verified = TRUE]
            /\ account' = [account EXCEPT
                    ![email_verification[token].account_id].email_verified = TRUE]

\* GET /auth/verify/email/confirm?token=: validateEmailToken, then NotFound,
\* Expired, AlreadyVerified, or the token and the account are marked in one
\* transaction
confirmEmailVerification(token) ==
    LET answer(result) == Answer("confirmEmailVerification", 0, "", token, result) IN
    /\ UNCHANGED << adminVars, phone_verification, phone_verified >>
    /\ IF ~validateEmailToken(token)
       THEN /\ reply' = answer("InvalidInput")
            /\ UNCHANGED << account, email_verification >>
       ELSE IF token \notin DOMAIN email_verification
       THEN /\ reply' = answer("NotFound")
            /\ UNCHANGED << account, email_verification >>
       ELSE IF email_verification[token].expired
       THEN /\ reply' = answer("Expired")
            /\ UNCHANGED << account, email_verification >>
       ELSE IF email_verification[token].verified
       THEN /\ reply' = answer("AlreadyVerified")
            /\ UNCHANGED << account, email_verification >>
       ELSE /\ reply' = answer("Verified")
            /\ email_verification' = [email_verification EXCEPT ![token].verified = TRUE]
            /\ account' = [account EXCEPT
                    ![email_verification[token].account_id].email_verified = TRUE]

\* forty-eight hours pass after a token was issued
EmailTokenExpires(token) ==
    /\ token \in DOMAIN email_verification
    /\ ~email_verification[token].expired
    /\ email_verification' = [email_verification EXCEPT ![token].expired = TRUE]
    /\ UNCHANGED << adminVars, account, phone_verification, phone_verified, reply >>

InitVerificationRoutes ==
    /\ authRevision \in AuthRevisions
    /\ account = InitialAccount
    /\ credential = InitialCredential
    /\ account_id_seq = 4
    /\ req = [s \in Slots |-> NoReq]
    /\ arrivals = 0
    /\ InitVerification

NextVerification ==
    \/ \E id \in Verifiers, code \in PhoneCodes : sendSMSVerification(id, code)
    \/ \E id \in Verifiers, code \in CodeInputs : verifySMSCode(id, code)
    \/ \E id \in Verifiers : PhoneCodeExpires(id)
    \/ \E id \in Verifiers : sendEmailVerification(id)
    \/ \E token \in 0..MaxEmailTokens + 1 : confirmEmailVerification(token)
    \/ \E token \in 1..MaxEmailTokens : EmailTokenExpires(token)

SpecVerification == InitVerificationRoutes /\ [][NextVerification]_vars

(***************************************************************************)
(* Vocabulary of the properties                                            *)
(***************************************************************************)
ModRoutes == {"update", "delete", "password", "role"}

\* no other request has been served beside the one in slot s
Alone(s) == \A t \in Slots \ {s} : req[t] = NoReq

\* the validation chains of the route have all called next()
PastValidation(r) ==
    \A i \in 1..Len(Chain(r)) : Chain(r)[i].h \in Validators => r.pos > i

\* the request never entered its controller
ControllerNotRun(r) == Handler(r).h \notin Controllers /\ r.step = "" /\ r.sql = << >>

\* the tables are as they were when the request arrived
StoreUnchanged(r) == account = r.pre.account /\ credential = r.pre.credential

\* v is an integer in 1..5
ValidRole(v) == v.t = "number" /\ v.h % 2 = 0 /\ v.h >= 2 /\ v.h <= 10

(***************************************************************************)
(* C5: requireRole(minRole) calls next() exactly when claims.role >=       *)
(* minRole; otherwise it answers 403 and nothing after it runs.            *)
(***************************************************************************)
C5_MinimumRoleGate ==
    \A s \in Slots : LET r == req[s] IN
        r.route # "none" =>
            \A i \in 1..Len(Chain(r)) :
                Chain(r)[i].h = "requireRole" =>
                    /\ r.pos > i => r.claims.role >= Chain(r)[i].arg
                    /\ (r.pos = i /\ Done(r)) =>
                            /\ r.claims.role < Chain(r)[i].arg
                            /\ r.status = 403
                            /\ ControllerNotRun(r)

\* a moderator is refused by requireRole(ADMIN), and an admin passes it
C5_Witness ==
    \E s \in Slots : LET r == req[s] IN
        /\ Done(r) /\ r.status = 403 /\ Handler(r).h = "requireRole"
        /\ Handler(r).arg = ROLE_ADMIN /\ r.claims.role = ROLE_MODERATOR

(***************************************************************************)
(* C3: for an actor role r1 and a body role r2, both in 1..5,              *)
(* canManageRole calls next() iff r2 <= r1; when r2 > r1 it answers 403    *)
(* and the controller is not run.                                          *)
(***************************************************************************)
C3_AssignableRole ==
    \A s \in Slots : LET r == req[s] IN
        (r.route # "none" /\ ValidRole(r.body.role)) =>
            \A i \in 1..Len(Chain(r)) :
                Chain(r)[i].h = "canManageRole" =>
                    /\ r.pos > i => NumVal(r.body.role) <= r.claims.role
                    /\ (r.pos = i /\ Done(r)) =>
                            /\ NumVal(r.body.role) > r.claims.role
                            /\ r.status = 403
                            /\ ControllerNotRun(r)

\* a role equal to the actor's own was let through and the role change done
C3_Witness ==
    \E s \in Slots : LET r == req[s] IN
        /\ Done(r) /\ r.route = "role" /\ r.status = 200
        /\ ValidRole(r.body.role) /\ NumVal(r.body.role) = r.claims.role
        /\ r.claims.role = 4

(***************************************************************************)
(* C4: a body role that is present and is not an integer in 1..5 (0, a     *)
(* negative number, a number above 5, a non-integer, null, the empty       *)
(* string) never passes canManageRole, and the answer is 400.              *)
(***************************************************************************)
C4_InvalidRoleRejected ==
    \A s \in Slots : LET r == req[s] IN
        (/\ r.route # "none"
         /\ r.body.role # JsUndefined /\ ~ValidRole(r.body.role)
         /\ r.body.account_role = JsUndefined) =>
            \A i \in 1..Len(Chain(r)) :
                Chain(r)[i].h = "canManageRole" =>
                    /\ r.pos <= i
                    /\ (r.pos = i /\ Done(r)) => r.status = 400

(***************************************************************************)
(* C1: an admin mutation of an existing account, served with no other      *)
(* request beside it, is answered 403 and changes no row whenever the      *)
(* target's stored role is greater than the actor's claims.role.           *)
(***************************************************************************)
C1_TargetCeiling ==
    \A s \in Slots : LET r == req[s] IN
        (/\ Done(r) /\ r.route \in ModRoutes /\ Alone(s) /\ PastValidation(r)
         /\ r.id \in DOMAIN r.pre.account
         /\ r.pre.account[r.id].account_role > r.claims.role) =>
            r.status = 403 /\ StoreUnchanged(r)

(***************************************************************************)
(* C2: with the target ceiling mounted, no update, delete, password reset  *)
(* or role change by an actor of role a succeeds on a target whose stored  *)
(* role at the moment of the write is greater than a.                      *)
(***************************************************************************)
C2_CeilingHoldsAtWrite ==
    [][authRevision = "part_001" =>
        \A s \in Slots :
            (req[s].route \in ModRoutes /\ req[s].status = 0 /\ req'[s].status = 200) =>
                account[req[s].id].account_role <= req[s].claims.role]_vars

(***************************************************************************)
(* C6: a request whose :id is the actor's own id never passes              *)
(* preventSelfModification, never enters a controller, is answered 403     *)
(* and changes nothing; a request for another id is never stopped by it.   *)
(***************************************************************************)
C6_SelfModificationGuard ==
    \A s \in Slots : LET r == req[s] IN
        r.route \in ModRoutes =>
            /\ \A i \in 1..Len(Chain(r)) :
                Chain(r)[i].h = "preventSelfModification" =>
                    /\ r.pos > i => r.id # r.claims.id
                    /\ (r.pos = i /\ Done(r)) => (r.id = r.claims.id /\ r.status = 403)
            /\ r.id = r.claims.id =>
                    /\ ControllerNotRun(r)
                    /\ (Done(r) /\ PastValidation(r)) => r.status = 403
                    /\ (Done(r) /\ Alone(s)) => StoreUnchanged(r)

\* the admin token aimed at the admin's own account, refused by the guard
C6_Witness ==
    \E s \in Slots : LET r == req[s] IN
        /\ Done(r) /\ r.route \in ModRoutes /\ r.id = r.claims.id
        /\ Handler(r).h = "preventSelfModification" /\ r.status = 403

(***************************************************************************)
(* C7: on every admin mutation route the checks run in the order minimum   *)
(* role, self-modification guard, target ceiling, assignable body role,    *)
(* and the response is the one of the first check that fails.              *)
(***************************************************************************)
C7_CheckOrder ==
    \A s \in Slots : LET r == req[s] IN
        (Done(r) /\ r.route \in ModRoutes /\ Alone(s) /\ PastValidation(r)) =>
            LET minRole == r.claims.role < ROLE_MODERATOR
                self == r.id = r.claims.id
                ceiling == /\ r.id \in DOMAIN r.pre.account
                           /\ r.pre.account[r.id].account_role > r.claims.role
                bodyRole == ValidRole(r.body.role) /\ NumVal(r.body.role) > r.claims.role
                StoppedBy(h) == Handler(r).h = h /\ r.status = 403
            IN  /\ minRole => StoppedBy("requireRole")
                /\ (~minRole /\ self) => StoppedBy("preventSelfModification")
                /\ (~minRole /\ ~self /\ ceiling) => StoppedBy("canModifyTargetUser")
                /\ (~minRole /\ ~self /\ ~ceiling /\ bodyRole) => StoppedBy("canManageRole")

(***************************************************************************)
(* C8: in every committed state each account row has exactly one           *)
(* credential row and each credential row belongs to an account row; a     *)
(* createUser call that fails leaves the tables as it found them.          *)
(***************************************************************************)
C8_AccountCredentialAtomic ==
    /\ \A id \in DOMAIN account :
        Cardinality({i \in DOMAIN credential : credential[i].account_id = id}) = 1
    /\ \A i \in DOMAIN credential : credential[i].account_id \in DOMAIN account
    /\ \A s \in Slots : LET r == req[s] IN
        (Done(r) /\ r.route = "create" /\ r.status # 201 /\ Alone(s)) => StoreUnchanged(r)

\* the first request was a createUser that threw after its account INSERT
C8_Witness ==
    \E s \in Slots : LET r == req[s] IN
        /\ Done(r) /\ r.route = "create" /\ r.status = 500 /\ r.step = "caught"
        /\ arrivals = 1 /\ account_id_seq = 5

(***************************************************************************)
(* C9: when a role change and a delete of the same account overlap and     *)
(* both report success, exactly one of the two writes is observed in the   *)
(* final row.                                                              *)
(***************************************************************************)
C9_ExactlyOneWriteObserved ==
    \A d, c \in Slots : LET D == req[d]
                            R == req[c] IN
        (/\ Done(D) /\ D.route = "delete" /\ D.status = 200
         /\ Done(R) /\ R.route = "role" /\ R.status = 200
         /\ D.id = R.id /\ D.pre = R.pre
         /\ D.pre.account[D.id].account_status # "deleted"
         /\ D.pre.account[D.id].account_role # NumVal(R.body.role)) =>
            ~ (/\ account[D.id].account_status = "deleted"
               /\ account[D.id].account_role = NumVal(R.body.role))

(***************************************************************************)
(* C10: a createUser call, served with no other request beside it, whose   *)
(* username or email is that of an existing account row answers 409 and    *)
(* leaves every row as it was.                                             *)
(***************************************************************************)
C10_DuplicateIsConflict ==
    \A s \in Slots : LET r == req[s] IN
        (/\ Done(r) /\ r.route = "create" /\ Handler(r).h = "createUser" /\ Alone(s)
         /\ \E j \in DOMAIN r.pre.account :
                \/ r.pre.account[j].username = r.body.username
                \/ r.pre.account[j].email = r.body.email) =>
            r.status = 409 /\ StoreUnchanged(r)

\* a new username with the email of an existing account was refused
C10_Witness ==
    \E s \in Slots : LET r == req[s] IN
        /\ Done(r) /\ r.route = "create" /\ r.status = 409 /\ Alone(s)
        /\ r.body.username = "dave" /\ r.body.email = "alice@uw.edu"
        /\ StoreUnchanged(r)

(***************************************************************************)
(* C11: every username/email uniqueness violation the store raises is      *)
(* answered 409: of two concurrent createUser calls with the same username *)
(* or email one commits and the other answers 409, and an updateUser that  *)
(* sets username or email to a value of another account answers 409.       *)
(***************************************************************************)
C11_UniqueViolationIsConflict ==
    \A s \in Slots : LET r == req[s] IN
        (Done(r) /\ r.error = "unique_violation") => r.status = 409

(***************************************************************************)
(* C12: PUT /admin/users/:id/role by an actor of role a >= 2 on an         *)
(* existing other account whose stored role is <= a, with a body role r in *)
(* 1..5: if r <= a the answer is 200 and the stored role becomes exactly   *)
(* r, nothing else changing; otherwise the answer is 403 and the store is  *)
(* unchanged.  Aimed at the actor's own id the answer is 403.              *)
(***************************************************************************)
C12_RoleChangeEndToEnd ==
    \A s \in Slots : LET r == req[s]
                         a == r.claims.role
                         role == NumVal(r.body.role)
                     IN
        (/\ Done(r) /\ r.route = "role" /\ Alone(s)
         /\ a >= ROLE_MODERATOR /\ IsIntInRange(r.body.role)
         /\ r.id \in DOMAIN r.pre.account) =>
            IF r.id = r.claims.id
            THEN r.status = 403 /\ StoreUnchanged(r)
            ELSE r.pre.account[r.id].account_role <= a =>
                    IF role <= a
                    THEN /\ r.status = 200
                         /\ account = [r.pre.account EXCEPT ![r.id].account_role = role]
                         /\ credential = r.pre.credential
                    ELSE r.status = 403 /\ StoreUnchanged(r)

\* an actor of role 3 raised a role-1 account to role 3
C12_Witness ==
    \E s \in Slots : LET r == req[s] IN
        /\ Done(r) /\ r.route = "role" /\ r.status = 200
        /\ r.claims.role = ROLE_ADMIN /\ r.id # r.claims.id
        /\ r.pre.account[r.id].account_role = ROLE_USER
        /\ account[r.id].account_role = ROLE_ADMIN

(***************************************************************************)
(* C13: an account created through POST /admin/users/create by an actor of *)
(* role a is stored with a role r <= a; a create request whose body role r *)
(* in 1..5 exceeds a is answered 403 and adds neither an account row nor a *)
(* credential row.                                                         *)
(***************************************************************************)
C13_NoEscalationOnCreation ==
    \A s \in Slots : LET r == req[s]
                         a == r.claims.role
                     IN
        (Done(r) /\ r.route = "create") =>
            /\ r.status = 201 =>
                    \A id \in DOMAIN account \ DOMAIN r.pre.account :
                        account[id].account_role <= a
            /\ (IsIntInRange(r.body.role) /\ NumVal(r.body.role) > a) =>
                    r.status = 403 /\ StoreUnchanged(r)

\* a create request asking for the role just above the actor's was refused by
\* canManageRole
C13_Witness ==
    \E s \in Slots : LET r == req[s] IN
        /\ Done(r) /\ r.route = "create" /\ r.status = 403
        /\ Handler(r).h = "canManageRole"
        /\ NumVal(r.body.role) = r.claims.role + 1
        /\ StoreUnchanged(r)

(***************************************************************************)
(* C14: no step ever removes an account row (the set of account ids never  *)
(* shrinks), and the step of deleteUser on an existing account changes     *)
(* only that row's account_status, to 'deleted': role, username, email,    *)
(* verification flag, every other row and every credential stay the same.  *)
(***************************************************************************)
C14_SoftDelete ==
    [][/\ DOMAIN account \subseteq DOMAIN account'
       /\ \A s \in Slots :
            (/\ Active(req[s]) /\ Handler(req[s]).h = "deleteUser"
             /\ req'[s] # req[s] /\ req[s].id \in DOMAIN account) =>
                /\ account' = [account EXCEPT ![req[s].id].account_status = "deleted"]
                /\ credential' = credential]_vars

\* an active account was marked deleted and kept its other columns
C14_Witness ==
    \E s \in Slots : LET r == req[s] IN
        /\ Done(r) /\ r.route = "delete" /\ r.status = 200
        /\ r.pre.account[r.id].account_status = "active"
        /\ account[r.id] = [r.pre.account[r.id] EXCEPT !.account_status = "deleted"]

(***************************************************************************)
(* C15: once deleteUser has marked an account 'deleted', a later           *)
(* createUser carrying that account's username or email is answered 409;   *)
(* at no time do two account rows, deleted or not, share a username or an  *)
(* email.                                                                  *)
(***************************************************************************)
C15_UniqueAcrossDeletion ==
    /\ \A i, j \in DOMAIN account :
            i # j => /\ account[i].username # account[j].username
                     /\ account[i].email # account[j].email
    /\ \A s \in Slots : LET r == req[s] IN
            (/\ Done(r) /\ r.route = "create" /\ Handler(r).h = "createUser"
             /\ \E j \in DOMAIN r.pre.account :
                    /\ r.pre.account[j].account_status = "deleted"
                    /\ \/ r.pre.account[j].username = r.body.username
                       \/ r.pre.account[j].email = r.body.email) =>
                r.status = 409 /\ StoreUnchanged(r)

\* the username of an account that an earlier deleteUser marked 'deleted'
\* (no account starts deleted) was refused
C15_Witness ==
    \E s \in Slots : LET r == req[s] IN
        /\ Done(r) /\ r.route = "create" /\ r.status = 409
        /\ \E j \in DOMAIN r.pre.account :
                /\ r.pre.account[j].account_status = "deleted"
                /\ r.pre.account[j].username = r.body.username
                /\ r.pre.account[j].email # r.body.email
        /\ StoreUnchanged(r)

(***************************************************************************)
(* C16: in every state reachable through the admin routes the stored       *)
(* account_role of every account, committed or inserted by a transaction   *)
(* still open, is an integer in 1..5: neither createUser nor               *)
(* changeUserRole stores a role outside that range.                        *)
(***************************************************************************)
C16_RoleRange ==
    /\ \A id \in DOMAIN account : account[id].account_role \in Roles
    /\ \A s \in Slots : \A i \in 1..Len(req[s].tx.account) :
            req[s].tx.account[i].row.account_role \in Roles

\* changeUserRole has stored a new role while a createUser holds an inserted row
C16_Witness ==
    \E s \in Slots, c \in Slots : LET r == req[s] IN
        /\ Done(r) /\ r.route = "role" /\ r.status = 200
        /\ account[r.id].account_role = NumVal(r.body.role)
        /\ account[r.id].account_role # r.pre.account[r.id].account_role
        /\ req[c].route = "create" /\ req[c].tx.account # << >>

(***************************************************************************)
(* C17: an admin update, delete, password reset or role change aimed at a  *)
(* different account whose stored role equals the actor's claims.role is   *)
(* denied with 403.                                                        *)
(***************************************************************************)
C17_EqualRoleDenied ==
    \A s \in Slots : LET r == req[s] IN
        (/\ Done(r) /\ r.route \in ModRoutes /\ Alone(s) /\ PastValidation(r)
         /\ r.id \in DOMAIN r.pre.account /\ r.id # r.claims.id
         /\ r.pre.account[r.id].account_role = r.claims.role) =>
            r.status = 403

(***************************************************************************)
(* C18: under any interleaving of resetUserPassword calls, concurrent ones *)
(* on the same account included, the stored (salted_hash, salt) of every   *)
(* account is at every moment a pair that one generateSaltedHash call      *)
(* produced: never the hash of one call with the salt of another.          *)
(***************************************************************************)
C18_CredentialPairWholesale ==
    \A i \in DOMAIN credential :
        \E password \in {"secret", "newpw"}, salt \in Salts \cup {"s0"} :
            LET gen == generateSaltedHash(password, salt) IN
                /\ credential[i].salted_hash = gen.hash
                /\ credential[i].salt = gen.salt

\* two resetUserPassword calls on the same account, both arrived before
\* either had committed, have both committed
C18_Witness ==
    \E s \in Slots, t \in Slots :
        /\ s # t
        /\ Done(req[s]) /\ req[s].route = "password" /\ req[s].status = 200
        /\ Done(req[t]) /\ req[t].route = "password" /\ req[t].status = 200
        /\ req[s].id = req[t].id
        /\ req[s].pre.credential = InitialCredential
        /\ req[t].pre.credential = InitialCredential
        /\ \E i \in DOMAIN credential :
                credential[i].account_id = req[s].id /\ credential[i].salt \in Salts

(***************************************************************************)
(* C19: each authorizer check (requireRole, preventSelfModification,       *)
(* canModifyTargetUser, canManageRole) run on a request without claims     *)
(* answers 401 and does nothing else: no role, self, ceiling or body-role  *)
(* rule decides the answer, no stored role is taken from the database, no  *)
(* next handler or controller runs and the store does not change.          *)
(***************************************************************************)
C19_Unauthenticated ==
    [][\A s \in Slots :
        (Active(req[s]) /\ req[s].claims = NoClaims /\ req'[s] # req[s]) =>
            /\ req'[s] = [req[s] EXCEPT !.status = 401]
            /\ UNCHANGED << account, credential, account_id_seq >>]_vars

\* canModifyTargetUser answered 401 for an existing target and a body role
\* that canManageRole would have refused as invalid
C19_Witness ==
    \E s \in Slots : LET r == req[s] IN
        /\ Done(r) /\ r.claims = NoClaims /\ r.status = 401
        /\ Handler(r).h = "canModifyTargetUser"
        /\ r.id \in DOMAIN account /\ r.body.role = JsNum(6)
        /\ r.targetUserRole = 0 /\ StoreUnchanged(r)

(***************************************************************************)
(* C20: PUT /admin/users/:id/password changes a credential only for an     *)
(* actor with claims.role >= 3.  A request of an actor with a lower role   *)
(* (a Moderator, role 2, included) never enters resetUserPassword, never   *)
(* opens a transaction, and its answer is 403.                             *)
(***************************************************************************)
C20_PasswordResetNeedsAdmin ==
    \A s \in Slots : LET r == req[s] IN
        /\ (r.route = "password" /\ r.claims.role < ROLE_ADMIN) =>
                /\ ControllerNotRun(r)
                /\ ~r.tx.open /\ r.tx.credUpd = << >>
                /\ Done(r) => r.status = 403
        /\ (r.route = "password" /\ (r.tx.credUpd # << >> \/ r.status = 200)) =>
                r.claims.role >= ROLE_ADMIN

\* a Moderator aiming at another account of a lower stored role, which the
\* combined modification middleware would admit, was answered 403
C20_Witness ==
    \E s \in Slots : LET r == req[s] IN
        /\ Done(r) /\ r.route = "password" /\ r.status = 403
        /\ r.claims.role = ROLE_MODERATOR /\ r.id # r.claims.id
        /\ r.id \in DOMAIN account /\ account[r.id].account_role < ROLE_MODERATOR
        /\ credential = r.pre.credential

(***************************************************************************)
(* C21: over any sequence of requests, a request whose claims.role is 1    *)
(* never reaches an admin controller: it opens no transaction, its answer  *)
(* is a denial (403, or 400 from a validator mounted before the role       *)
(* gate), and served alone it leaves every account and credential row as   *)
(* it found them.                                                          *)
(***************************************************************************)
C21_UserNeverReachesController ==
    \A s \in Slots : LET r == req[s] IN
        (r.route # "none" /\ r.claims.role < ROLE_MODERATOR) =>
            /\ ControllerNotRun(r)
            /\ ~r.tx.open
            /\ Done(r) => r.status \in {400, 403}
            /\ (Done(r) /\ Alone(s)) => StoreUnchanged(r)

\* a role-1 actor aiming at another account was stopped by requireRole
C21_Witness ==
    \E s \in Slots : LET r == req[s] IN
        /\ Done(r) /\ r.claims.role = ROLE_USER /\ r.status = 403
        /\ r.route = "update" /\ Handler(r).h = "requireRole"
        /\ r.id \in DOMAIN account /\ r.id # r.claims.id
        /\ ~NoFieldsToUpdate(r.body)

(***************************************************************************)
(* C24: a successful updateUser changes, on the target account only,       *)
(* exactly the fields its body carries (username, email, account_status,   *)
(* email_verified); it never changes account_role or a credential, even    *)
(* when the body carries role or account_role, and no other account; a     *)
(* body with none of these fields is answered 400 with no change.          *)
(***************************************************************************)
C24_UpdateUserFrame ==
    \A s \in Slots : LET r == req[s]
                         b == r.body
                     IN
        (Done(r) /\ r.route = "update" /\ Handler(r).h = "updateUser" /\ Alone(s)) =>
            IF NoFieldsToUpdate(b)
            THEN r.status = 400 /\ StoreUnchanged(r)
            ELSE /\ r.status # 200 => StoreUnchanged(r)
                 /\ r.status = 200 =>
                    LET old == r.pre.account[r.id]
                        new == account[r.id]
                    IN /\ credential = r.pre.credential
                       /\ DOMAIN account = DOMAIN r.pre.account
                       /\ \A j \in DOMAIN account \ {r.id} : account[j] = r.pre.account[j]
                       /\ new.account_role = old.account_role
                       /\ new.username = IF b.username = UNDEF THEN old.username
                                         ELSE b.username
                       /\ new.email = IF b.email = UNDEF THEN old.email ELSE b.email
                       /\ new.account_status = IF b.account_status = UNDEF
                                               THEN old.account_status
                                               ELSE b.account_status
                       /\ new.email_verified = IF b.email_verified = UNDEF
                                               THEN old.email_verified
                                               ELSE b.email_verified = "true"

\* an update whose body also carried a role the actor may assign changed the
\* status and left the stored role alone
C24_Witness ==
    \E s \in Slots : LET r == req[s] IN
        /\ Done(r) /\ r.route = "update" /\ r.status = 200
        /\ ValidRole(r.body.role)
        /\ NumVal(r.body.role) # r.pre.account[r.id].account_role
        /\ account[r.id].account_role = r.pre.account[r.id].account_role
        /\ r.pre.account[r.id].account_status = "active"
        /\ account[r.id].account_status = "suspended"

(***************************************************************************)
(* C25: resetUserPassword on an id that matches no account answers 404     *)
(* and changes no credential; on an existing account, once it answers 200  *)
(* the credential of exactly that account holds the newly generated        *)
(* (hash, salt) pair, and every other credential and every account row is  *)
(* unchanged.                                                              *)
(***************************************************************************)
C25_ResetUserPasswordEffect ==
    \A s \in Slots : LET r == req[s] IN
        (/\ Done(r) /\ r.route = "password" /\ Handler(r).h = "resetUserPassword"
         /\ Alone(s)) =>
            IF r.id \notin DOMAIN r.pre.account
            THEN r.status = 404 /\ StoreUnchanged(r)
            ELSE /\ r.status \in {200, 500}
                 /\ r.status = 500 => StoreUnchanged(r)
                 /\ r.status = 200 =>
                        /\ account = r.pre.account
                        /\ DOMAIN credential = DOMAIN r.pre.credential
                        /\ \A i \in DOMAIN credential :
                            IF credential[i].account_id = r.id
                            THEN \E salt \in Salts :
                                    credential[i] =
                                        CredentialRow(r.id,
                                            generateSaltedHash(r.body.password, salt))
                            ELSE credential[i] = r.pre.credential[i]

\* a reset aimed at an id no account has was answered 404
C25_Witness ==
    \E s \in Slots : LET r == req[s] IN
        /\ Done(r) /\ r.route = "password" /\ r.status = 404
        /\ r.id \notin DOMAIN account /\ r.sql = << "BEGIN", "ROLLBACK" >>
        /\ StoreUnchanged(r)

C27_FailedRequestsChangeNothing ==
    [][/\ (account' # account \/ credential' # credential) =>
            \E s \in Slots : req[s].status = 0 /\ req'[s].status \in {200, 201}
       /\ \A s \in Slots :
            (/\ req'[s].route # "none"
             /\ req'[s].status \in {400, 401, 403, 404, 409, 500}
             /\ \A t \in Slots \ {s} : req'[t] = NoReq) =>
                /\ account' = req'[s].pre.account
                /\ credential' = req'[s].pre.credential]_vars

\* of two overlapping createUser calls one committed and the other, refused
\* by the store after its INSERT, was rolled back and answered 500
C27_Witness ==
    \E s \in Slots, t \in Slots :
        /\ req[s].route = "create" /\ req[s].status = 500
        /\ req[s].error = "unique_violation"
        /\ req[t].route = "create" /\ req[t].status = 201
        /\ Cardinality(DOMAIN account) = Cardinality(DOMAIN InitialAccount) + 1
        /\ Len(credential) = Len(InitialCredential) + 1

(***************************************************************************)
(* C28: whether a request is authorized is decided by claims.id,           *)
(* claims.role, the role in the body and the target's stored role alone,   *)
(* never by the actor's own stored role or status: a request reaches its   *)
(* controller exactly when its input is valid and these four admit it, so  *)
(* a request carrying claims issued before its actor was demoted or marked *)
(* deleted is authorized as it was before.                                 *)
(***************************************************************************)
C28_AuthorizationReadsClaimsOnly ==
    \A s \in Slots : LET r == req[s]
                         minRole == IF r.route = "password" THEN ROLE_ADMIN
                                    ELSE ROLE_MODERATOR
                         targetRole == JsOr(r.body.role, r.body.account_role)
                         validInput ==
                            \A i \in 1..Len(Chain(r)) :
                                Chain(r)[i].h \in Validators =>
                                    validate(Chain(r)[i].h, r).next
                         admitted ==
                            /\ r.claims.role >= minRole
                            /\ r.route \in ModRoutes => r.id # r.claims.id
                            /\ (/\ r.route \in ModRoutes /\ authRevision = "part_001"
                                /\ r.id \in DOMAIN r.pre.account) =>
                                    r.pre.account[r.id].account_role <= r.claims.role
                            /\ \/ targetRole = JsUndefined
                               \/ ValidRole(targetRole) /\ ~JsGreater(targetRole, r.claims.role)
                     IN
        (Done(r) /\ Alone(s)) =>
            (Handler(r).h \in Controllers <=> (validInput /\ admitted))

\* an actor whose stored role had been lowered below the role in its claims
\* still had a modification carried out
C28_Witness ==
    \E s \in Slots : LET r == req[s]
                         actor == r.pre.account[r.claims.id]
                     IN
        /\ Done(r) /\ r.route \in ModRoutes /\ r.status = 200
        /\ actor.account_role < r.claims.role

(***************************************************************************)
(* C29: on every path of createUser and resetUserPassword (success, the    *)
(* duplicate or not-found early return, a thrown error) the BEGIN is       *)
(* followed by exactly one COMMIT or ROLLBACK by the time the response is  *)
(* sent, and the pooled client is released exactly once; no answered       *)
(* request holds an open transaction or an unreleased client, and no       *)
(* client is released while its request is still being served.             *)
(***************************************************************************)
C29_TransactionClosure ==
    \A s \in Slots : LET r == req[s] IN
        /\ Active(r) =>
                /\ r.released = 0
                /\ r.sql = IF r.tx.open THEN << "BEGIN" >> ELSE << >>
        /\ Done(r) =>
                /\ ~r.tx.open
                /\ IF Handler(r).h \in {"createUser", "resetUserPassword"}
                   THEN /\ r.released = 1
                        /\ r.sql = IF r.status \in {200, 201}
                                   THEN << "BEGIN", "COMMIT" >>
                                   ELSE << "BEGIN", "ROLLBACK" >>
                   ELSE r.released = 0 /\ r.sql = << >>

\* of two overlapping resetUserPassword calls one committed and the other
\* went through its catch block
C29_Witness ==
    \E s \in Slots, t \in Slots :
        /\ req[s].route = "password" /\ req[s].step = "committed"
        /\ req[s].sql = << "BEGIN", "COMMIT" >> /\ req[s].released = 1
        /\ req[t].route = "password" /\ req[t].step = "caught"
        /\ req[t].sql = << "BEGIN", "ROLLBACK" >> /\ req[t].released = 1

(***************************************************************************)
(* C30: every step of a request in the admin chain is the step of the      *)
(* handler it stands at; a middleware either sends a response or calls     *)
(* next, once and never both; an answered request takes no further step,   *)
(* so it has at most one response; a controller runs only in a request    *)
(* that stands at it, which every middleware before it has passed on; and  *)
(* every request that is being served is eventually answered.              *)
(***************************************************************************)
C30_ExactlyOneOutcome ==
    /\ \A s \in Slots : Active(req[s]) ~> Done(req[s])
    /\ [][\A s \in Slots : LET r == req[s]
                                q == req'[s]
                            IN
            /\ (r.step # "" \/ r.sql # << >> \/ r.tx.open) =>
                    Handler(r).h \in Controllers
            /\ (q # r /\ arrivals' = arrivals) =>
                    /\ Active(r)
                    /\ q.route = r.route /\ q.claims = r.claims /\ q.id = r.id
                    /\ IF Handler(r).h \in Controllers
                       THEN q.pos = r.pos
                       ELSE \/ q.pos = r.pos + 1 /\ q.status = 0
                            \/ q.pos = r.pos /\ q.status # 0]_vars

\* one request was refused by a middleware and another, served at the same
\* time, was answered by its controller
C30_Witness ==
    \E s \in Slots, t \in Slots :
        /\ Done(req[s]) /\ Handler(req[s]).h \in SyncHandlers /\ req[s].status = 403
        /\ Done(req[t]) /\ Handler(req[t]).h \in Controllers /\ req[t].status = 200
        /\ req[s].pre = req[t].pre

(***************************************************************************)
(* C22: a verifySMSCode call on a pending, unexpired code looks at         *)
(* attempts before it compares the code: with attempts below the ceiling   *)
(* of 5 a wrong code is answered Incorrect and attempts grows by one; with *)
(* attempts at the ceiling any code, the correct one included, is answered *)
(* AttemptsExhausted and neither the row nor phone_verified changes.  So   *)
(* after five wrong codes the sixth call, with the correct code, fails.    *)
(***************************************************************************)
C22_PhoneAttemptCeiling ==
    [][\A id \in Verifiers : LET rec == phone_verification[id]
                                 code == reply'.code
                             IN
        (/\ reply'.op = "verifySMSCode" /\ reply'.id = id
         /\ email_verification' = email_verification
         /\ \A i \in Verifiers :
                phone_verification'[i].expired = phone_verification[i].expired
         /\ validatePhoneVerify(code) /\ rec.pending /\ ~rec.expired) =>
            IF rec.attempts >= PhoneAttemptCeiling
            THEN /\ reply'.result = "AttemptsExhausted"
                 /\ UNCHANGED << phone_verification, phone_verified, account >>
            ELSE IF code # rec.code
            THEN /\ reply'.result = "Incorrect"
                 /\ phone_verification' =
                        [phone_verification EXCEPT ![id].attempts = rec.attempts + 1]
                 /\ UNCHANGED << phone_verified, account >>
            ELSE reply'.result = "Verified" /\ phone_verified'[id]]_vars

\* after five wrong codes the correct code was answered AttemptsExhausted
C22_Witness ==
    \E id \in Verifiers : LET rec == phone_verification[id] IN
        /\ reply = Answer("verifySMSCode", id, rec.code, 0, "AttemptsExhausted")
        /\ rec.pending /\ ~rec.expired /\ rec.attempts = PhoneAttemptCeiling
        /\ ~rec.verified /\ ~phone_verified[id]

(***************************************************************************)
(* C23: confirming an unexpired email token that is not yet verified       *)
(* succeeds and, in the same step, marks the token verified and sets       *)
(* email_verified on the owning account; confirming it again while it is   *)
(* unexpired is answered AlreadyVerified and changes neither the token nor *)
(* any account.                                                            *)
(***************************************************************************)
C23_EmailTokenSingleUse ==
    [][\A token \in DOMAIN email_verification : LET row == email_verification[token] IN
        (/\ reply'.op = "confirmEmailVerification" /\ reply'.token = token
         /\ Len(email_verification') = Len(email_verification)
         /\ \A i \in DOMAIN email_verification :
                email_verification'[i].expired = email_verification[i].expired
         /\ \A i \in Verifiers :
                phone_verification'[i].expired = phone_verification[i].expired
         /\ ~row.expired) =>
            IF row.verified
            THEN /\ reply'.result = "AlreadyVerified"
                 /\ UNCHANGED << account, email_verification >>
            ELSE /\ reply'.result = "Verified"
                 /\ email_verification' = [email_verification EXCEPT ![token].verified = TRUE]
                 /\ account' = [account EXCEPT ![row.account_id].email_verified = TRUE]]_vars

\* the second confirmation of a token was answered AlreadyVerified; its
\* account, unverified at first, is verified
C23_Witness ==
    \E token \in DOMAIN email_verification : LET row == email_verification[token] IN
        /\ reply.op = "confirmEmailVerification" /\ reply.token = token
        /\ reply.result = "AlreadyVerified"
        /\ row.verified /\ ~row.expired
        /\ ~InitialAccount[row.account_id].email_verified
        /\ account[row.account_id].email_verified

====
